---- MODULE Spec2Model ----
(***************************************************************************)
(* Model of the EssayBot server's batch grading (routes/bulkGrading.py)    *)
(* and of its index construction, ingestion and retrieval                  *)
(* (routes/rag_pipeline.py).                                               *)
(*                                                                         *)
(* Grading: run_threaded_grading submits one work item per essay to a      *)
(* ThreadPoolExecutor of MAX_CONCURRENT_REQUESTS threads; every work item  *)
(* runs grade_essay_sync, which shares one GradingProgress object with the *)
(* other work items and updates its counters with unsynchronised "+= 1"    *)
(* statements (a load and a store, with other threads free to run in       *)
(* between).  The main thread collects the futures in completion order and *)
(* grade_bulk_essays lays the collected results out row by row.            *)
(*                                                                         *)
(* The calls that leave the process (retrieve_relevant_text, get_prompt,   *)
(* the LLM endpoint) are inputs: Init draws, for every essay, what each of *)
(* them answers, and the answers are fixed for the run (deterministic      *)
(* collaborators).  The "raise" answer of the retrieval call stands for    *)
(* every exception it can end with, the TypeError Python raises for the    *)
(* keyword arguments of bulkGrading.py:94-102 that the retrieve_relevant_  *)
(* text of rag_pipeline.py:306 does not accept among them.                 *)
(***************************************************************************)
EXTENDS Integers, Sequences, FiniteSets, TLC

\* ------------------------------------------------------------------ bounds
\* Largest batch whose essays are drawn with every mix of fates.
MaxEssays == 3
\* Essays a full pool leaves waiting in the largest batch.
Backlog == 1
\* Largest oracle score drawn for a well-formed response.
MaxScore == 2

\* Largest number of embeddings handed to create_quantized_index.
MaxVectors == 260
\* Largest nlist and nbits a caller passes explicitly.
MaxNlistArg == 3
MaxNbitsArg == 4

\* Most passages a chunks object holds and most vectors an index holds.
MaxPassages == 3
\* Largest k a retrieval asks for.
MaxK == 4
\* Most bytes the encoding spends on one character of a passage.
MaxBytesPerChar == 2
\* Documents ingested for one owner and course, and index_pdf calls made.
MaxDocs == 2
MaxIngestions == 3
\* Concurrent calls of download_json_from_s3.
MaxCalls == 2
\* Largest batch that is graded a second time.
MaxRerunEssays == 2

\* ------------------------------------------------------- program constants
MAX_CONCURRENT_REQUESTS == 4
\* create_quantized_index's default bit-width.
DEFAULT_NBITS == 8
\* nlist=None.
None == 0
\* RAG_DISTANCE_THRESHOLD = 0.5, in tenths.
RAG_DISTANCE_THRESHOLD == 5
\* RAG_MAX_TOTAL_LENGTH, in bytes.
RAG_MAX_TOTAL_LENGTH == 6000
\* chunk_size of the text splitter, in characters.
CHUNK_SIZE == 1200

\* The rubric's criterion names, in the order the criteria_prompts dict
\* holds them.
CriteriaOrder == <<"c1", "c2">>
Criteria == {CriteriaOrder[i] : i \in 1..Len(CriteriaOrder)}

VARIABLES
    \* inputs of the grading job, fixed by Init
    n,               \* len(essays)
    retr,            \* essay -> what retrieve_relevant_text answers
    assembled,       \* what get_prompt(config_prompt) answers
    config_keys,     \* keys of config_prompt.get("criteria_prompts", {})
    llm,             \* <<essay, criterion>> -> what the LLM endpoint answers
    \* run_threaded_grading
    mainPc,          \* position of the calling thread
    submitted,       \* number of executor.submit calls made
    queue,           \* the executor's work queue (essay numbers)
    threads,         \* worker threads the executor has started
    stage,           \* essay -> position of its work item
    reg,             \* essay -> value loaded by the pending "+= 1"
    local,           \* essay -> value grade_essay_sync is about to return
    future,          \* essay -> state and result of its Future
    yielded,         \* futures as_completed has handed out
    progress,        \* the shared GradingProgress
    grading_results, \* the list run_threaded_grading builds
    \* grade_bulk_essays
    output,          \* the rows of output_data
    \* create_quantized_index
    num_embeddings,  \* len(embeddings)
    index,           \* the index the call returned
    \* a second run_threaded_grading of the same job
    previous,        \* what the first run returned
    \* retrieve_relevant_text
    request,         \* the arguments of the call
    corpus,          \* what the resolved index and chunks objects hold
    rpc,             \* position of the call
    resolved,        \* what find_most_recent_index_and_chunks returned
    indices,         \* indices[0] of faiss_index.search
    relevant_chunks, \* the list the call builds
    raised,          \* the exception the call ended with
    accesses,        \* storage requests the call has made
    \* the bucket, under the prefix of one owner and course
    bucket,          \* the objects
    clock,           \* LastModified of the latest upload
    ingest,          \* the running index_pdf call
    \* the working directory
    file,            \* content of temp_chunks.json
    calls            \* the running download_json_from_s3 calls

vars == <<n, retr, assembled, config_keys, llm, mainPc, submitted, queue,
          threads, stage, reg, local, future, yielded, progress,
          grading_results, output, num_embeddings, index, previous, request,
          corpus, rpc, resolved, indices, relevant_chunks, raised, accesses,
          bucket, clock, ingest, file, calls>>

indexing == <<num_embeddings, index>>

retrieval == <<request, corpus, rpc, resolved, indices, relevant_chunks,
               raised, accesses>>

storage == <<bucket, clock, ingest>>

tempfile == <<file, calls>>

rag == <<retrieval, storage, tempfile>>

\* What the grading actions leave alone.
elsewhere == <<indexing, rag, previous>>

grading == <<n, retr, assembled, config_keys, llm, mainPc, submitted, queue,
             threads, stage, reg, local, future, yielded, progress,
             grading_results, output>>

inputs == <<n, retr, assembled, config_keys, llm>>

\* ------------------------------------------------------------ pure helpers
Essays == 1..n

NoResult == [c \in {} |-> [score |-> 0, feedback |-> ""]]

NO_CONTEXT == "No relevant context available."

\* What retrieve_relevant_text can answer to the call of line 94.
RetrievalOutcomes == {"chunks", "empty", "raise"}

\* What the LLM endpoint can answer to one POST.  kind:
\*   http_error   requests.post raises, or raise_for_status does, or the body
\*                is not JSON
\*   no_field     a JSON body without a "response" member
\*   not_json     "response" holds text json.loads rejects
\*   non_object   "response" holds JSON that is no object ("[]", "3", "null")
\*   object       "response" holds a JSON object; has_score / has_feedback
\*                say which members it has
OracleReply(kind, hs, hf, s) ==
    [kind |-> kind, has_score |-> hs, has_feedback |-> hf, score |-> s]

WellFormedReplies == {OracleReply("object", TRUE, TRUE, s) : s \in 0..MaxScore}

MalformedReplies ==
    {OracleReply(k, FALSE, FALSE, 0) :
        k \in {"http_error", "no_field", "not_json", "non_object", "object"}}

OracleReplies == WellFormedReplies \cup MalformedReplies

\* send_post_request_sync: None on any failure of the POST, else the body.
send_post_request_sync(full_prompt) ==
    LET reply == llm[<<full_prompt.essay, full_prompt.criterion>>]
    IN  IF reply.kind = "http_error"
        THEN [none |-> TRUE, has_response |-> FALSE, text |-> reply]
        ELSE [none |-> FALSE, has_response |-> reply.kind # "no_field",
              text |-> reply]

\* json.loads on the text of the "response" member.
json_loads(text) ==
    CASE text.kind = "not_json"   -> [error |-> "JSONDecodeError", is_object |-> FALSE]
      [] text.kind = "non_object" -> [error |-> "", is_object |-> FALSE]
      [] OTHER                    -> [error |-> "", is_object |-> TRUE]

CriterionResult(score, feedback) == [score |-> score, feedback |-> feedback]

ErrorFeedback(cause) == "Error: " \o cause

\* Mutant: the degraded result names the first criterion only.
ErrorResultFirstOnly(cause) ==
    [c \in config_keys \cap {CriteriaOrder[1]} |->
        CriterionResult(0, ErrorFeedback(cause))]

\* The dict both except branches build (lines 147-150 and 181-184).
ErrorResult(cause) ==
    [c \in config_keys |-> CriterionResult(0, ErrorFeedback(cause))]

Raised(cause) == [raised |-> TRUE, cause |-> cause, results |-> NoResult]

\* Lines 111-138: the loop over assembled_prompts["criteria_prompts"], from
\* position i of the dict on, with the results built so far.
RECURSIVE GradeCriteria(_, _, _, _)
GradeCriteria(e, rag_context, i, acc) ==
    IF i > Len(CriteriaOrder)
    THEN [raised |-> FALSE, cause |-> "", results |-> acc]
    ELSE
      LET criterion_name == CriteriaOrder[i]
          full_prompt == [criterion |-> criterion_name, essay |-> e,
                          rag_context |-> rag_context]
          response == send_post_request_sync(full_prompt)
          parsed == json_loads(response.text)
          put(r) == [c \in (DOMAIN acc) \cup {criterion_name} |->
                        IF c = criterion_name THEN r ELSE acc[c]]
      IN  IF ~assembled.prompt_ok[criterion_name]
          THEN Raised("Invalid prompt for criterion")
          ELSE IF response.none \/ ~response.has_response
          THEN GradeCriteria(e, rag_context, i + 1,
                   put(CriterionResult(0, "No response from LLM")))
          ELSE IF parsed.error = "JSONDecodeError"
          THEN GradeCriteria(e, rag_context, i + 1,
                   put(CriterionResult(0, "Failed to parse LLM response")))
          ELSE IF ~parsed.is_object
          THEN Raised("object has no attribute 'get'")
          ELSE GradeCriteria(e, rag_context, i + 1,
                   put(CriterionResult(
                         IF response.text.has_score THEN response.text.score ELSE 0,
                         IF response.text.has_feedback THEN "feedback"
                         ELSE "No feedback provided")))

\* Lines 93-138: the body of grade_essay_sync's try block up to the counter
\* updates.  Everything here is local to the work item.
GradeBody(e) ==
    IF retr[e] = "raise"
    THEN Raised("retrieval failed")
    ELSE
      LET rag_context == IF retr[e] = "chunks" THEN "chunks" ELSE NO_CONTEXT
      IN  IF ~assembled.valid
          THEN Raised("Invalid or missing criteria_prompts")
          ELSE GradeCriteria(e, rag_context, 1, NoResult)

\* Mutant: an essay graded while another work item is running fails.
ReturnValueUnderLoad(e) ==
    IF \E f \in (1..n) \ {e} :
          stage[f] \in {"run", "ldC", "stC", "ldI", "stI", "ldF", "stF"}
    THEN ErrorResult("retrieval failed")
    ELSE LET body == GradeBody(e)
         IN  IF body.raised THEN ErrorResult(body.cause) ELSE body.results

\* What grade_essay_sync returns for essay e (lines 142 and 147-150).
ReturnValue(e) ==
    LET body == GradeBody(e)
    IN  IF body.raised THEN ErrorResult(body.cause) ELSE body.results

\* Sum of result[c]["score"] over the criteria cs (line 251).
RECURSIVE SumScores(_, _)
SumScores(result, cs) ==
    IF cs = {} THEN 0
    ELSE LET c == CHOOSE x \in cs : TRUE
         IN  result[c].score + SumScores(result, cs \ {c})

\* ------------------------------------------------------------- the inputs
\* get_prompt(config_prompt): nothing usable, or a criteria_prompts dict
\* whose entries are usable ({"prompt": ...}) or not.
AssembledPrompts ==
    {[valid |-> FALSE, prompt_ok |-> [c \in Criteria |-> FALSE]]}
    \cup {[valid |-> TRUE, prompt_ok |-> f] : f \in [Criteria -> BOOLEAN]}

ValidPrompts == [valid |-> TRUE, prompt_ok |-> [c \in Criteria |-> TRUE]]

\* A deterministic stub oracle: a well-formed answer whose score tells the
\* essays apart, and no answer at all for the essays in failing.
StubOracle(k, failing) ==
    [p \in (1..k) \X Criteria |->
        IF p[1] \in failing THEN OracleReply("http_error", FALSE, FALSE, 0)
        ELSE OracleReply("object", TRUE, TRUE, p[1])]

\* A batch of up to MaxEssays essays graded against a valid rubric; the
\* retrieval and the oracle calls of the essays in failing fail.
InitBatch ==
    /\ n \in 1..MaxEssays
    /\ \E failing \in SUBSET (1..n) :
          /\ retr = [e \in 1..n |-> IF e \in failing THEN "raise" ELSE "chunks"]
          /\ llm = StubOracle(n, failing)
    /\ assembled = ValidPrompts
    /\ config_keys = Criteria

\* A batch larger than the pool, graded with the retrieval the repository
\* ships: every call of line 94 raises (TypeError, unexpected keyword).
InitBacklog ==
    /\ n = MAX_CONCURRENT_REQUESTS + Backlog
    /\ retr = [e \in 1..n |-> "raise"]
    /\ assembled = ValidPrompts
    /\ config_keys = Criteria
    /\ llm = StubOracle(n, 1..n)

\* The criteria_prompts get_prompt returns has the criterion names of
\* config_prompt["criteria_prompts"]: each configured criterion is graded.
KeepsCriterionNames == assembled.valid => config_keys = Criteria

\* One essay, with every answer the collaborators can give.
InitSingle ==
    /\ n = 1
    /\ retr \in [1..n -> RetrievalOutcomes]
    /\ assembled \in AssembledPrompts
    /\ config_keys \in SUBSET Criteria
    /\ KeepsCriterionNames
    /\ llm \in [(1..n) \X Criteria -> OracleReplies]

\* Line 164 and the locals of run_threaded_grading before the with block.
InitRun ==
    /\ mainPc = "submit"
    /\ submitted = 0
    /\ queue = <<>>
    /\ threads = 0
    /\ stage = [e \in 1..n |-> "new"]
    /\ reg = [e \in 1..n |-> 0]
    /\ local = [e \in 1..n |-> NoResult]
    /\ future = [e \in 1..n |-> [state |-> "NONE", result |-> NoResult]]
    /\ yielded = {}
    /\ progress = [total_essays |-> n, completed_essays |-> 0,
                   failed_essays |-> 0, current_essay_index |-> 0]
    /\ grading_results = <<>>
    /\ output = [status |-> 0, rows |-> <<>>]

\* No index is being built.
NoIndex ==
    [kind |-> "none", nlist_arg |-> 0, nbits_arg |-> 0, nlist |-> 0, nbits |-> 0,
     trained_on |-> 0, ntotal |-> 0]

IndexIdle ==
    /\ num_embeddings = 0
    /\ index = NoIndex

\* The job has not been graded before.
NoRun == [ran |-> FALSE, results |-> <<>>]

FirstRun == previous = NoRun

\* No object, no retrieval call, no index_pdf call, no temporary file.
NoObject == [doc |-> 0, kind |-> "none", modified |-> 0, ingestion |-> 0]

NoPair == [error |-> "", index |-> NoObject, chunks |-> NoObject]

NoRequest == [form |-> "none", professor_username |-> FALSE,
              course_id |-> FALSE, k |-> 0]

NoCorpus == [passages |-> 0, ntotal |-> 0, order |-> <<>>, within |-> 0,
             bytes_per_char |-> 1]

NoIngest == [pc |-> "idle", doc |-> 0, number |-> 0]

NoFile == 0

RetrievalIdle ==
    /\ request = NoRequest
    /\ corpus = NoCorpus
    /\ rpc = "idle"
    /\ resolved = NoPair
    /\ indices = <<>>
    /\ relevant_chunks = <<>>
    /\ raised = ""
    /\ accesses = 0

StorageIdle ==
    /\ bucket = {}
    /\ clock = 0
    /\ ingest = NoIngest

TempfileIdle ==
    /\ file = NoFile
    /\ calls = <<>>

RagIdle == RetrievalIdle /\ StorageIdle /\ TempfileIdle

Init ==
    /\ (InitBatch \/ InitBacklog \/ InitSingle)
    /\ InitRun
    /\ IndexIdle
    /\ FirstRun
    /\ RagIdle

\* --------------------------------------------------- ThreadPoolExecutor
\* Work items a worker thread is executing.
InFlightStages == {"run", "ldC", "stC", "ldI", "stI", "ldF", "stF"}
InFlight == {e \in Essays : stage[e] \in InFlightStages}

\* Threads of the pool that are waiting on the work queue.
IdleThreads == threads - Cardinality(InFlight)

\* Mutant: a thread is added whenever none is idle.
AdjustThreadCountUnbounded ==
    IF IdleThreads = 0 THEN threads + 1 ELSE threads

\* A thread is added on submit while none is idle and the pool is not full.
AdjustThreadCount ==
    IF IdleThreads = 0 /\ threads < MAX_CONCURRENT_REQUESTS
    THEN threads + 1 ELSE threads

\* A worker may take the head of the work queue.
WorkerFree == IdleThreads > 0

\* Lines 167-174: executor.submit for the next essay.
Submit ==
    /\ mainPc = "submit"
    /\ submitted < n
    /\ LET e == submitted + 1
       IN  /\ queue' = Append(queue, e)
           /\ stage' = [stage EXCEPT ![e] = "queued"]
           /\ future' = [future EXCEPT ![e].state = "PENDING"]
    /\ threads' = AdjustThreadCount
    /\ submitted' = submitted + 1
    /\ mainPc' = IF submitted + 1 = n THEN "as_completed" ELSE "submit"
    /\ UNCHANGED <<elsewhere, inputs, reg, local, yielded, progress, grading_results, output>>

\* A worker thread takes the oldest work item and starts grade_essay_sync.
Dispatch ==
    /\ queue # <<>>
    /\ WorkerFree
    /\ LET e == Head(queue)
       IN  /\ stage' = [stage EXCEPT ![e] = "run"]
           /\ future' = [future EXCEPT ![e].state = "RUNNING"]
    /\ queue' = Tail(queue)
    /\ UNCHANGED <<elsewhere, inputs, mainPc, submitted, threads, reg, local, yielded,
                   progress, grading_results, output>>

\* ------------------------------------------------------ grade_essay_sync
\* Mutant: one essay's exception degrades every essay of the batch.
GradeAbortsBatch(e) ==
    /\ stage[e] = "run"
    /\ local' = [local EXCEPT ![e] =
                    IF \E f \in Essays : GradeBody(f).raised
                    THEN ErrorResult("retrieval failed") ELSE ReturnValue(e)]
    /\ stage' = [stage EXCEPT ![e] = IF GradeBody(e).raised THEN "ldF" ELSE "ldC"]
    /\ UNCHANGED <<elsewhere, inputs, mainPc, submitted, queue, threads, reg, future,
                   yielded, progress, grading_results, output>>

\* Lines 93-138 (and the except clause's entry, line 144): the retrieval,
\* the prompts and the oracle calls of one essay.
Grade(e) ==
    /\ stage[e] = "run"
    /\ local' = [local EXCEPT ![e] = ReturnValue(e)]
    /\ stage' = [stage EXCEPT ![e] = IF GradeBody(e).raised THEN "ldF" ELSE "ldC"]
    /\ UNCHANGED <<elsewhere, inputs, mainPc, submitted, queue, threads, reg, future,
                   yielded, progress, grading_results, output>>

\* "progress.<field> += 1" is a load of the attribute followed by a store of
\* the loaded value plus one; other threads may run in between.
LoadCounter(e, at, field, next) ==
    /\ stage[e] = at
    /\ reg' = [reg EXCEPT ![e] = progress[field]]
    /\ stage' = [stage EXCEPT ![e] = next]
    /\ UNCHANGED <<elsewhere, inputs, mainPc, submitted, queue, threads, local, future,
                   yielded, progress, grading_results, output>>

StoreCounter(e, at, field, next) ==
    /\ stage[e] = at
    /\ progress' = [progress EXCEPT ![field] = reg[e] + 1]
    /\ reg' = [reg EXCEPT ![e] = 0]
    /\ stage' = [stage EXCEPT ![e] = next]
    /\ UNCHANGED <<elsewhere, inputs, mainPc, submitted, queue, threads, local,
                   future, yielded, grading_results, output>>

\* The store of the work item's last "+= 1" together with the return that
\* follows it (lines 141-142, 146-150): the Future gets its result and the
\* worker thread goes back to the work queue.  Between that store and the
\* return the work item touches nothing another thread reads.
StoreAndReturn(e, at, field) ==
    /\ stage[e] = at
    /\ progress' = [progress EXCEPT ![field] = reg[e] + 1]
    /\ reg' = [reg EXCEPT ![e] = 0]
    /\ future' = [future EXCEPT ![e] = [state |-> "FINISHED", result |-> local[e]]]
    /\ stage' = [stage EXCEPT ![e] = "done"]
    /\ UNCHANGED <<elsewhere, inputs, mainPc, submitted, queue, threads, local,
                   yielded, grading_results, output>>

\* Line 140.
LoadCompleted(e) == LoadCounter(e, "ldC", "completed_essays", "stC")
StoreCompleted(e) == StoreCounter(e, "stC", "completed_essays", "ldI")
\* Lines 141-142.
LoadIndex(e) == LoadCounter(e, "ldI", "current_essay_index", "stI")
StoreIndex(e) == StoreAndReturn(e, "stI", "current_essay_index")
\* Lines 146-150.
LoadFailed(e) == LoadCounter(e, "ldF", "failed_essays", "stF")
StoreFailed(e) == StoreAndReturn(e, "stF", "failed_essays")

\* ------------------------------------------------- run_threaded_grading
\* Futures as_completed can hand out next: the finished ones it has not
\* handed out yet, in no particular order.
Completed == {e \in Essays : future[e].state = "FINISHED" /\ e \notin yielded}

\* Mutant: the loop ends with the first future handed out.
AllYieldedFirst(ys) == ys # {}

\* Line 176: the as_completed loop ends when every future was handed out.
AllYielded(ys) == ys = Essays

\* Lines 176-178: one iteration of the as_completed loop.  grade_essay_sync
\* catches every Exception, so future.result() returns.
Collect(e) ==
    /\ mainPc = "as_completed"
    /\ e \in Completed
    /\ grading_results' = Append(grading_results, future[e].result)
    /\ yielded' = yielded \cup {e}
    /\ mainPc' = IF AllYielded(yielded \cup {e}) THEN "exit_with" ELSE "as_completed"
    /\ UNCHANGED <<elsewhere, inputs, submitted, queue, threads, stage, reg, local,
                   future, progress, output>>

\* The executor's shutdown(wait=True) lets the with block end.
PoolJoined == \A e \in Essays : stage[e] = "done"

\* Lines 166 and 185-188: leaving the with block joins the worker threads;
\* then the list is returned.
ExitWith ==
    /\ mainPc = "exit_with"
    /\ PoolJoined
    /\ mainPc' = "returned"
    /\ UNCHANGED <<elsewhere, inputs, submitted, queue, threads, stage, reg, local,
                   future, yielded, progress, grading_results, output>>

\* ---------------------------------------------------- grade_bulk_essays
\* Lines 243-252: row i of the sheet gets ID and Response of essay i and
\* the i-th element of grading_results.
OutputRows ==
    [i \in 1..n |->
        [ID |-> i, Response |-> i,
         result |-> [c \in config_keys |-> grading_results[i][c]],
         Total_Score |-> SumScores(grading_results[i], config_keys)]]

BuildOutput ==
    /\ mainPc = "returned"
    /\ output' = IF \A i \in 1..n : config_keys \subseteq DOMAIN grading_results[i]
                 THEN [status |-> 200, rows |-> OutputRows]
                 ELSE [status |-> 500, rows |-> <<>>]
    /\ mainPc' = "responded"
    /\ UNCHANGED <<elsewhere, inputs, submitted, queue, threads, stage, reg, local,
                   future, yielded, progress, grading_results>>

\* ------------------------------------------------ create_quantized_index
\* No grading request is running.
GradingIdle ==
    /\ n = 0
    /\ retr = <<>>
    /\ assembled = ValidPrompts
    /\ config_keys = {}
    /\ llm = <<>>
    /\ mainPc = "idle"
    /\ submitted = 0
    /\ queue = <<>>
    /\ threads = 0
    /\ stage = <<>>
    /\ reg = <<>>
    /\ local = <<>>
    /\ future = <<>>
    /\ yielded = {}
    /\ progress = [total_essays |-> 0, completed_essays |-> 0,
                   failed_essays |-> 0, current_essay_index |-> 0]
    /\ grading_results = <<>>
    /\ output = [status |-> 0, rows |-> <<>>]

\* A non-empty embeddings array (index_pdf stops before the call when the
\* document yields no chunk).
InitIndex ==
    /\ GradingIdle
    /\ num_embeddings \in 1..MaxVectors
    /\ index = NoIndex
    /\ FirstRun
    /\ RagIdle

\* 1 << nbits.
Pow2(k) == 2 ^ k

\* int(np.sqrt(num)).
IntSqrt(num) == CHOOSE r \in 0..num : r * r <= num /\ (r + 1) * (r + 1) > num

\* Mutant: the vector count is compared with the bit-width itself.
NotEnoughTrainingDataLinear(num, nbits) == num < nbits

\* Line 109: too few training points for 2^nbits codes.
NotEnoughTrainingData(num, nbits) == num < Pow2(nbits)

\* Lines 116-119: the cluster count when the caller passed none.
ChooseNlist(num, nlist) ==
    IF nlist = None
    THEN (IF IntSqrt(num) < 1 THEN 1 ELSE IntSqrt(num))
    ELSE nlist

\* Lines 106-130: the index create_quantized_index returns for num
\* embeddings.  nlist_arg and nbits_arg keep the arguments of the call,
\* trained_on is the number of vectors index.train was given (0: train was
\* not called), ntotal the number index.add stored.
CreateQuantizedIndex(num, nlist, nbits) ==
    IF NotEnoughTrainingData(num, nbits)
    THEN [kind |-> "IndexFlatL2", nlist_arg |-> nlist, nbits_arg |-> nbits,
          nlist |-> 0, nbits |-> 0, trained_on |-> 0, ntotal |-> num]
    ELSE [kind |-> "IndexIVFPQ", nlist_arg |-> nlist, nbits_arg |-> nbits,
          nlist |-> ChooseNlist(num, nlist), nbits |-> nbits,
          trained_on |-> num, ntotal |-> num]

\* Line 164: index_pdf builds the index with the default arguments.
IndexPdf ==
    /\ index = NoIndex
    /\ index' = CreateQuantizedIndex(num_embeddings, None, DEFAULT_NBITS)
    /\ UNCHANGED <<num_embeddings, grading, rag, previous>>

\* Line 100: a caller passes nlist and nbits of its own.
CallCreateQuantizedIndex ==
    /\ index = NoIndex
    /\ \E nlist \in 0..MaxNlistArg, nbits \in 1..MaxNbitsArg :
          index' = CreateQuantizedIndex(num_embeddings, nlist, nbits)
    /\ UNCHANGED <<num_embeddings, grading, rag, previous>>

NextIndex ==
    \/ IndexPdf
    \/ CallCreateQuantizedIndex

IndexSpec == InitIndex /\ [][NextIndex]_vars

\* ----------------------------------------------------------- the bucket
\* An object under the prefix "{professor_username}/{course_id}/": the
\* document (file_name) its key is built from, what its key ends with
\* ("index": _faiss_index.index, "chunks": _chunks.json, "other": neither),
\* its LastModified, and the index_pdf call that wrote it (0: none did).
Object(doc, kind, modified, ingestion) ==
    [doc |-> doc, kind |-> kind, modified |-> modified, ingestion |-> ingestion]

\* put_object and upload_file: the object takes the place of the one that
\* has its key.
Put(b, o) == {p \in b : ~(p.doc = o.doc /\ p.kind = o.kind)} \cup {o}

\* ------------------------------------ find_most_recent_index_and_chunks
\* Lines 270-277.
index_files(b) == {o \in b : o.kind = "index"}
chunks_files(b) == {o \in b : o.kind = "chunks"}

\* Lines 280-281 and 290-291: element 0 after the sort by last_modified,
\* most recent first.
MostRecent(files) ==
    CHOOSE o \in files : \A p \in files : p.modified <= o.modified

\* Mutant: a list of files is never taken for empty.
NotAnyNever(files) == FALSE

\* Lines 283 and 286: "if not index_files", "if not chunks_files".
NotAny(files) == files = {}

Resolution(error, i, c) == [error |-> error, index |-> i, chunks |-> c]

Failed(error) == Resolution(error, NoObject, NoObject)

\* Lines 250-303, for the objects b the listing of line 264 returns.
find_most_recent_index_and_chunks(professor_username, course_id, b) ==
    IF ~professor_username
    THEN Failed("ValueError: professor_username is required to locate files")
    ELSE IF ~course_id
    THEN Failed("ValueError: course_id is required to locate files")
    ELSE IF b = {}
    THEN Failed("ValueError: No files found in S3 directory")
    ELSE IF NotAny(index_files(b))
    THEN Failed("ValueError: No FAISS index files found in S3 directory")
    ELSE IF NotAny(chunks_files(b))
    THEN Failed("ValueError: No chunks files found in S3 directory")
    ELSE IF index_files(b) = {} \/ chunks_files(b) = {}
    THEN Failed("IndexError: list index out of range")
    ELSE Resolution("", MostRecent(index_files(b)), MostRecent(chunks_files(b)))

\* ------------------------------------------------ retrieve_relevant_text
\* The vectors of the index are numbered from 0.  c.order lists them by
\* ascending distance from the query; the first c.within of them lie at
\* the threshold RAG_DISTANCE_THRESHOLD, the others beyond it.
Orders(t) ==
    {o \in [1..t -> 0..(t - 1)] : \A i, j \in 1..t : o[i] = o[j] => i = j}

\* The corpora a retrieval can meet.  Index and chunks of one ingestion
\* have ntotal = passages; a pair from two ingestions need not.
Corpora ==
    UNION {
      {[passages |-> p, ntotal |-> t, order |-> o, within |-> w,
        bytes_per_char |-> b] :
          p \in 0..MaxPassages, o \in Orders(t), w \in 0..t,
          b \in 1..MaxBytesPerChar} :
      t \in 0..MaxPassages}

\* Line 329: the labels of the k nearest vectors by ascending distance,
\* filled up with -1 when the index holds fewer than k.
Search(c, k) == [j \in 1..k |-> IF j <= c.ntotal THEN c.order[j] ELSE -1]

\* The distance line 329 returns next to the label at rank j, in tenths; the
\* fill-up entries carry the largest distance.
Distance(c, j) ==
    IF j > c.ntotal THEN RAG_DISTANCE_THRESHOLD + 2
    ELSE IF j <= c.within THEN RAG_DISTANCE_THRESHOLD
    ELSE RAG_DISTANCE_THRESHOLD + 1

\* Line 335: "if i < len(text_chunks)".
InRange(i, length) == i < length

\* Lines 334-335: the list comprehension over indices[0], from rank j on.
\* text_chunks[i] counts a negative i from the end of the list and raises
\* IndexError outside -len..len-1.  An element keeps the position of its
\* passage in text_chunks, the label it was subscripted with and the rank of
\* that label.
RECURSIVE Comprehension(_, _, _, _)
Comprehension(ind, length, j, acc) ==
    IF j > Len(ind) THEN [error |-> "", chunks |-> acc]
    ELSE IF ~InRange(ind[j], length)
    THEN Comprehension(ind, length, j + 1, acc)
    ELSE IF ind[j] >= length \/ ind[j] < 0 - length
    THEN [error |-> "IndexError: list index out of range", chunks |-> <<>>]
    ELSE Comprehension(ind, length, j + 1,
             Append(acc, [position |-> IF ind[j] >= 0 THEN ind[j]
                                       ELSE length + ind[j],
                          label |-> ind[j], rank |-> j]))

\* The two ways the repository calls retrieve_relevant_text: "rubric" is
\* generateRubric.py:171 (query, k, professor_username, course_id), "grading"
\* is bulkGrading.py:94-102, which passes assignmentTitle, distance_threshold
\* and max_total_length as well.
Requests ==
    [form : {"rubric", "grading"}, professor_username : BOOLEAN,
     course_id : BOOLEAN, k : 1..MaxK]

\* Line 306 (the binding of the arguments) and lines 308-311.
EnterRetrieve ==
    /\ rpc = "call"
    /\ raised' =
         IF request.form = "grading"
         THEN "TypeError: got an unexpected keyword argument"
         ELSE IF ~request.professor_username
         THEN "ValueError: professor_username is required for retrieval"
         ELSE IF ~request.course_id
         THEN "ValueError: course_id is required for retrieval"
         ELSE ""
    /\ rpc' = IF raised' = "" THEN "find" ELSE "raised"
    /\ UNCHANGED <<grading, indexing, previous, storage, tempfile, request,
                   corpus, resolved, indices, relevant_chunks, accesses>>

\* Lines 313-314: one listing of the bucket.
Find ==
    /\ rpc = "find"
    /\ LET r == find_most_recent_index_and_chunks(
                    request.professor_username, request.course_id, bucket)
       IN  /\ raised' = r.error
           /\ resolved' = r
           /\ rpc' = IF r.error = "" THEN "load" ELSE "raised"
    /\ accesses' = accesses + 1
    /\ UNCHANGED <<grading, indexing, previous, storage, tempfile, request,
                   corpus, indices, relevant_chunks>>

\* Lines 316-329: the index and the chunks are fetched, the query is
\* embedded and the index searched.
SearchIndex ==
    /\ rpc = "load"
    /\ accesses' = accesses + 2
    /\ indices' = Search(corpus, request.k)
    /\ rpc' = "pack"
    /\ UNCHANGED <<grading, indexing, previous, storage, tempfile, request,
                   corpus, resolved, relevant_chunks, raised>>

\* Lines 334-336.
Pack ==
    /\ rpc = "pack"
    /\ LET r == Comprehension(indices, corpus.passages, 1, <<>>)
       IN  /\ raised' = r.error
           /\ relevant_chunks' = r.chunks
           /\ rpc' = IF r.error = "" THEN "returned" ELSE "raised"
    /\ UNCHANGED <<grading, indexing, previous, storage, tempfile, request,
                   corpus, resolved, indices, accesses>>

\* The objects of one ingested document, with or without its index, its
\* chunks and an object of another kind next to them.
Buckets ==
    SUBSET {Object(1, "chunks", 1, 1), Object(1, "index", 2, 1),
            Object(1, "other", 3, 0)}

Ingested == {Object(1, "chunks", 1, 1), Object(1, "index", 2, 1)}

\* A single passage with its vector.
OnePassage ==
    [passages |-> 1, ntotal |-> 1, order |-> <<0>>, within |-> 1,
     bytes_per_char |-> 1]

\* Every call against every bucket.
InitResolve ==
    /\ request \in Requests
    /\ bucket \in Buckets
    /\ corpus = OnePassage

\* The call of generateRubric.py against every corpus.
InitSearch ==
    /\ request \in {r \in Requests : r.form = "rubric" /\ r.professor_username
                                     /\ r.course_id}
    /\ bucket = Ingested
    /\ corpus \in Corpora

InitRetrieve ==
    /\ GradingIdle
    /\ IndexIdle
    /\ FirstRun
    /\ TempfileIdle
    /\ InitResolve \/ InitSearch
    /\ clock = 3
    /\ ingest = NoIngest
    /\ rpc = "call"
    /\ resolved = NoPair
    /\ indices = <<>>
    /\ relevant_chunks = <<>>
    /\ raised = ""
    /\ accesses = 0

NextRetrieve ==
    \/ EnterRetrieve
    \/ Find
    \/ SearchIndex
    \/ Pack

RetrieveSpec == InitRetrieve /\ [][NextRetrieve]_vars

\* ------------------------------------------------------------- index_pdf
\* Lines 134-181: the request names a document of the owner and course; its
\* text is split and embedded and its index is built.
IndexPdfStart(doc) ==
    /\ ingest.pc = "idle"
    /\ ingest.number < MaxIngestions
    /\ ingest' = [pc |-> "chunks", doc |-> doc, number |-> ingest.number + 1]
    /\ UNCHANGED <<grading, indexing, previous, retrieval, tempfile, bucket, clock>>

\* Line 184: upload_json_to_s3(chunks_data, chunks_key).
UploadChunks ==
    /\ ingest.pc = "chunks"
    /\ clock' = clock + 1
    /\ bucket' = Put(bucket, Object(ingest.doc, "chunks", clock + 1, ingest.number))
    /\ ingest' = [ingest EXCEPT !.pc = "index"]
    /\ UNCHANGED <<grading, indexing, previous, retrieval, tempfile>>

\* Lines 187-204: the index is written to a file and uploaded, and the
\* request is answered.
UploadIndex ==
    /\ ingest.pc = "index"
    /\ clock' = clock + 1
    /\ bucket' = Put(bucket, Object(ingest.doc, "index", clock + 1, ingest.number))
    /\ ingest' = [ingest EXCEPT !.pc = "idle"]
    /\ UNCHANGED <<grading, indexing, previous, retrieval, tempfile>>

\* Lines 205-207: an upload (or the write of the index file) raises and the
\* request is answered with status 500; what was uploaded stays.
IndexPdfFails ==
    /\ ingest.pc \in {"chunks", "index"}
    /\ ingest' = [ingest EXCEPT !.pc = "idle"]
    /\ UNCHANGED <<grading, indexing, previous, retrieval, tempfile, bucket, clock>>

\* An empty prefix, no index_pdf call yet, and one retrieval call.
InitIngest ==
    /\ GradingIdle
    /\ IndexIdle
    /\ FirstRun
    /\ TempfileIdle
    /\ StorageIdle
    /\ request = [form |-> "rubric", professor_username |-> TRUE,
                  course_id |-> TRUE, k |-> 1]
    /\ corpus = OnePassage
    /\ rpc = "call"
    /\ resolved = NoPair
    /\ indices = <<>>
    /\ relevant_chunks = <<>>
    /\ raised = ""
    /\ accesses = 0

NextIngest ==
    \/ \E doc \in 1..MaxDocs : IndexPdfStart(doc)
    \/ UploadChunks
    \/ UploadIndex
    \/ IndexPdfFails
    \/ EnterRetrieve
    \/ Find

IngestSpec == InitIngest /\ [][NextIngest]_vars

\* -------------------------------------------------- download_json_from_s3
\* A call of download_chunks_from_s3 (line 322): its position, the chunks
\* object it asks for, what json.load gave it and the exception it ends
\* with.  The content of a chunks object is written as the number of its
\* document.
Call(pc, json_key, data, error) ==
    [pc |-> pc, json_key |-> json_key, data |-> data, error |-> error]

\* Line 232: download_file puts the object at local_path.
DownloadFile(c) ==
    /\ calls[c].pc = "download"
    /\ file' = calls[c].json_key
    /\ calls' = [calls EXCEPT ![c].pc = "open"]
    /\ UNCHANGED <<grading, indexing, previous, retrieval, storage>>

\* Lines 233-238: open and json.load; open raises FileNotFoundError when
\* local_path is gone, and the except clause raises it again.
OpenAndLoad(c) ==
    /\ calls[c].pc = "open"
    /\ calls' = [calls EXCEPT ![c] =
                    IF file = NoFile
                    THEN Call("exists", @.json_key, @.data, "FileNotFoundError")
                    ELSE Call("exists", @.json_key, file, @.error)]
    /\ UNCHANGED <<grading, indexing, previous, retrieval, storage, file>>

\* Line 240: os.path.exists(local_path).
Exists(c) ==
    /\ calls[c].pc = "exists"
    /\ calls' = [calls EXCEPT ![c].pc = IF file # NoFile THEN "remove" ELSE "done"]
    /\ UNCHANGED <<grading, indexing, previous, retrieval, storage, file>>

\* Line 241: os.remove(local_path); it raises FileNotFoundError when the
\* file is gone, and an exception of the finally clause takes the place of
\* the return.
Remove(c) ==
    /\ calls[c].pc = "remove"
    /\ file' = NoFile
    /\ calls' = [calls EXCEPT ![c] =
                    IF file = NoFile
                    THEN Call("done", @.json_key, @.data, "FileNotFoundError")
                    ELSE Call("done", @.json_key, @.data, @.error)]
    /\ UNCHANGED <<grading, indexing, previous, retrieval, storage>>

\* MaxCalls calls, each for the chunks object of some document, about to
\* download it; local_path is "temp_chunks.json" for every one of them.
InitFile ==
    /\ GradingIdle
    /\ IndexIdle
    /\ FirstRun
    /\ RetrievalIdle
    /\ StorageIdle
    /\ file = NoFile
    /\ calls \in [1..MaxCalls ->
                    {Call("download", key, NoFile, "") : key \in 1..MaxDocs}]

NextFile ==
    \E c \in 1..MaxCalls :
        \/ DownloadFile(c)
        \/ OpenAndLoad(c)
        \/ Exists(c)
        \/ Remove(c)

FileSpec == InitFile /\ [][NextFile]_vars

\* ------------------------------------------------- the job graded again
\* grade_bulk_essays is called once more with the same request: line 242
\* calls run_threaded_grading for the same essays, whose collaborators
\* answer as they did.  previous keeps the list the first call returned.
Rerun ==
    /\ mainPc = "responded"
    /\ previous = NoRun
    /\ previous' = [ran |-> TRUE, results |-> grading_results]
    /\ mainPc' = "submit"
    /\ submitted' = 0
    /\ queue' = <<>>
    /\ threads' = 0
    /\ stage' = [e \in 1..n |-> "new"]
    /\ reg' = [e \in 1..n |-> 0]
    /\ local' = [e \in 1..n |-> NoResult]
    /\ future' = [e \in 1..n |-> [state |-> "NONE", result |-> NoResult]]
    /\ yielded' = {}
    /\ progress' = [total_essays |-> n, completed_essays |-> 0,
                    failed_essays |-> 0, current_essay_index |-> 0]
    /\ grading_results' = <<>>
    /\ output' = [status |-> 0, rows |-> <<>>]
    /\ UNCHANGED <<indexing, rag, inputs>>

Worker(e) ==
    \/ Grade(e)
    \/ LoadCompleted(e)
    \/ StoreCompleted(e)
    \/ LoadIndex(e)
    \/ StoreIndex(e)
    \/ LoadFailed(e)
    \/ StoreFailed(e)

Next ==
    \/ Submit
    \/ Dispatch
    \/ \E e \in Essays : Worker(e)
    \/ \E e \in Essays : Collect(e)
    \/ ExitWith
    \/ BuildOutput

Spec == Init /\ [][Next]_vars

\* Every retrieval and oracle call returns and the operating system keeps
\* running some thread that can run: while a step of the program is
\* possible, one is eventually taken.
FairSpec == Spec /\ WF_vars(Next)

\* A batch of up to MaxRerunEssays essays, graded twice.
InitRerun ==
    /\ InitBatch
    /\ n <= MaxRerunEssays
    /\ InitRun
    /\ IndexIdle
    /\ FirstRun
    /\ RagIdle

NextRerun ==
    \/ Next
    \/ Rerun

RerunSpec == InitRerun /\ [][NextRerun]_vars

\* ================================================================ claims
Returned == mainPc \in {"returned", "responded"}

Done == {e \in Essays : stage[e] = "done"}

\* The essay has left lines 93-138 (its result, or its exception, is fixed).
Graded(e) == stage[e] \in {"ldC", "stC", "ldI", "stI", "ldF", "stF", "done"}

\* The essay took the except branch of line 144.
TookExcept(e) == stage[e] \in {"ldF", "stF"} \/ (Graded(e) /\ GradeBody(e).raised)

ErrorFeedbacks ==
    {ErrorFeedback(cause) :
        cause \in {"retrieval failed", "Invalid or missing criteria_prompts",
                   "Invalid prompt for criterion", "object has no attribute 'get'"}}

DiagnosticFeedbacks ==
    ErrorFeedbacks \cup {"No response from LLM", "Failed to parse LLM response",
                         "No feedback provided"}

\* An EssayResult whose every criterion is score 0 with a diagnostic.
Degraded(r) ==
    \A c \in DOMAIN r : r[c].score = 0 /\ r[c].feedback \in DiagnosticFeedbacks

\* The retrieval and the oracle calls of essay e fail.
CallsFail(e) ==
    /\ retr[e] = "raise"
    /\ \A c \in Criteria : llm[<<e, c>>].kind = "http_error"

\* The retrieval and the oracle calls of essay e answer, well-formed, and the
\* rubric is usable.
CallsSucceed(e) ==
    /\ retr[e] # "raise"
    /\ \A c \in Criteria : llm[<<e, c>>] \in WellFormedReplies
    /\ assembled = ValidPrompts

\* C1: once the batch has returned, completed_essays + failed_essays equals
\* the number of essays, under every interleaving of the workers.
C1_CountersAddUp ==
    Returned => progress.completed_essays + progress.failed_essays = n

\* C2: in a returned batch where the calls of exactly one essay f fail and
\* those of the others succeed, exactly one returned result is degraded and
\* the others are, one for one, the results the other essays' own inputs
\* determine.
C2_FailureIsolation ==
    Returned =>
      \A f \in Essays :
        (CallsFail(f) /\ \A e \in Essays \ {f} : CallsSucceed(e)) =>
          \E p \in Permutations(Essays) :
            /\ \A i \in 1..n : grading_results[i] = ReturnValue(p[i])
            /\ \A i \in 1..n : Degraded(grading_results[i]) <=> p[i] = f

C2_Witness ==
    /\ Returned
    /\ n >= 3
    /\ \E f \in Essays : CallsFail(f) /\ \A e \in Essays \ {f} : CallsSucceed(e)
    /\ ~Degraded(grading_results[1])

\* C3: row i of the output pairs essay i (ID, Response) with the feedback,
\* scores and total of grading essay i, whatever the completion order.
C3_RowsPairEssayWithOwnResult ==
    (mainPc = "responded" /\ output.status = 200) =>
      \A i \in 1..n :
        /\ output.rows[i].Response = i
        /\ output.rows[i].result = [c \in config_keys |-> ReturnValue(i)[c]]
        /\ output.rows[i].Total_Score = SumScores(ReturnValue(i), config_keys)

\* C4: the batch returns only when every submitted essay has finished, with
\* one result per essay; a dispatched essay is never taken off its worker
\* before it finishes; and the batch eventually returns.
C4_ReturnsAfterAllFinished ==
    /\ [](Returned => /\ \A e \in Essays : future[e].state = "FINISHED"
                      /\ Done = Essays
                      /\ Len(grading_results) = n)
    /\ [][\A e \in Essays :
            stage[e] \in InFlightStages => stage'[e] \in InFlightStages \cup {"done"}]_vars
    /\ <>(mainPc = "returned")

C4_Witness ==
    /\ mainPc = "returned"
    /\ n = MAX_CONCURRENT_REQUESTS + Backlog
    /\ Len(grading_results) = n

\* What grade_essay_sync would return for essay e graded with the
\* "no context available" placeholder as its context.
PlaceholderGrading(e) ==
    LET body == IF assembled.valid
                THEN GradeCriteria(e, NO_CONTEXT, 1, NoResult)
                ELSE Raised("Invalid or missing criteria_prompts")
    IN  [raised |-> body.raised,
         value |-> IF body.raised THEN ErrorResult(body.cause) ELSE body.results]

\* C5: an essay whose retrieval raises is graded with the placeholder
\* context: its result is the one the oracle's answers determine, and the
\* retrieval failure alone does not send it down the failure path.
C5_RetrievalFailureUsesPlaceholder ==
    \A e \in Essays :
      (Graded(e) /\ retr[e] = "raise") =>
        /\ local[e] = PlaceholderGrading(e).value
        /\ ~PlaceholderGrading(e).raised => ~TookExcept(e)

\* The answer is missing or malformed: no response, no "response" member,
\* text that is not JSON, or JSON that is no object with score and feedback.
Malformed(reply) == reply \in MalformedReplies

\* C6: a missing or malformed oracle answer for one criterion zeroes that
\* criterion only, with a diagnostic; the essay is not failed and the
\* criteria with well-formed answers keep the results those answers give.
C6_MalformedReplyIsLocal ==
    \A e \in Essays : \A c \in Criteria :
      (Graded(e) /\ retr[e] # "raise" /\ assembled = ValidPrompts
         /\ Malformed(llm[<<e, c>>])) =>
        /\ ~TookExcept(e)
        /\ c \in DOMAIN local[e]
        /\ local[e][c].score = 0
        /\ local[e][c].feedback \in DiagnosticFeedbacks
        /\ \A d \in Criteria \ {c} :
             llm[<<e, d>>] \in WellFormedReplies =>
               /\ d \in DOMAIN local[e]
               /\ local[e][d] = CriterionResult(llm[<<e, d>>].score, "feedback")

\* C7: current_essay_index never decreases from one state to the next, and
\* it has advanced once for every essay that has completed, failed or not.
C7_IndexAdvances ==
    [][/\ progress.current_essay_index' >= progress.current_essay_index
       /\ progress.current_essay_index' >=
            Cardinality({e \in Essays : stage'[e] = "done"})]_vars

\* C8: the essays inside grade_essay_sync never outnumber the pool's
\* threads, which never outnumber MAX_CONCURRENT_REQUESTS; an essay beyond
\* that stays in the work queue.
C8_BoundedConcurrency ==
    /\ Cardinality(InFlight) <= threads
    /\ threads <= MAX_CONCURRENT_REQUESTS
    /\ \A i \in 1..Len(queue) : stage[queue[i]] = "queued"

C8_Witness ==
    /\ Cardinality(InFlight) = MAX_CONCURRENT_REQUESTS
    /\ queue # <<>>

\* The minimum training points per centroid of the specified builder and the
\* cap of its cluster count.  The builder in rag_pipeline.py has neither.
minPointsPerCentroid == 39
nlistMax == 100

\* The specified cluster count: clamp(sqrt(n), 1, nlistMax) unless the
\* caller overrides it.
SpecifiedNlist(num, nlist) ==
    IF nlist # None THEN nlist
    ELSE IF IntSqrt(num) < 1 THEN 1
    ELSE IF IntSqrt(num) > nlistMax THEN nlistMax
    ELSE IntSqrt(num)

\* C9: below the training-sufficiency threshold nlist x minPointsPerCentroid
\* the index built is the exact (flat) one, never the quantized one.
C9_ExactBelowTrainingThreshold ==
    (/\ index.kind # "none"
     /\ num_embeddings <
          SpecifiedNlist(num_embeddings, index.nlist_arg) * minPointsPerCentroid)
    => index.kind = "IndexFlatL2"

\* C10: a quantized index was trained with at least 2^nbits vectors.
C10_CodesDoNotExceedVectors ==
    index.kind = "IndexIVFPQ" =>
      /\ Pow2(index.nbits) <= num_embeddings
      /\ index.trained_on = num_embeddings

C10_Witness ==
    /\ index.kind = "IndexIVFPQ"
    /\ index.nbits = DEFAULT_NBITS
    /\ index.nlist_arg = None
    /\ Pow2(index.nbits) = num_embeddings

\* ------------------------------------------------------------ retrieval
\* C11: every passage retrieve_relevant_text returns was found at a distance
\* that does not exceed the distance threshold of the retrieval
\* (RAG_DISTANCE_THRESHOLD); a candidate beyond it is never in the result.
C11_WithinDistanceThreshold ==
    rpc = "returned" =>
      \A i \in 1..Len(relevant_chunks) :
        Distance(corpus, relevant_chunks[i].rank) <= RAG_DISTANCE_THRESHOLD

\* Bytes of a passage that fills its chunk.
PassageBytes(c) == CHUNK_SIZE * c.bytes_per_char

\* C12: the passages retrieve_relevant_text returns add up to no more bytes
\* than the length budget of the retrieval (RAG_MAX_TOTAL_LENGTH).
C12_WithinLengthBudget ==
    rpc = "returned" =>
      Len(relevant_chunks) * PassageBytes(corpus) <= RAG_MAX_TOTAL_LENGTH

\* C13: no passage (position of text_chunks) is in the result twice, for
\* every k and corpus, k larger than the number of vectors included.
C13_NoPassageTwice ==
    rpc = "returned" =>
      \A i, j \in 1..Len(relevant_chunks) :
        relevant_chunks[i].position = relevant_chunks[j].position => i = j

EmptyCorpus == corpus.passages = 0 /\ corpus.ntotal = 0

\* C14: on an empty corpus (no passage, no vector) a call that has searched
\* the index raises nothing and returns the empty list, for every k.
C14_EmptyCorpusReturnsEmpty ==
    EmptyCorpus =>
      /\ indices # <<>> => rpc # "raised"
      /\ rpc = "returned" => relevant_chunks = <<>>

NotFoundErrors ==
    {"ValueError: No files found in S3 directory",
     "ValueError: No FAISS index files found in S3 directory",
     "ValueError: No chunks files found in S3 directory"}

KeyErrors ==
    {"ValueError: professor_username is required for retrieval",
     "ValueError: course_id is required for retrieval"}

\* Nothing under the prefix, or no index object, or no chunks object.
NoIngestedDocument == index_files(bucket) = {} \/ chunks_files(bucket) = {}

\* C15: a call with owner and course that finds no ingested document (no
\* object under the prefix, no index object or no chunks object) ends with a
\* not-found error, without a search and without passages; a call that
\* lacks owner or course is rejected before any storage request.
C15_NotFoundWithoutIngestedDocument ==
    request.form = "rubric" =>
      /\ (/\ request.professor_username /\ request.course_id
          /\ NoIngestedDocument
          /\ rpc \notin {"call", "find"})
         => /\ rpc = "raised"
            /\ raised \in NotFoundErrors
            /\ indices = <<>>
            /\ relevant_chunks = <<>>
      /\ (~request.professor_username \/ ~request.course_id)
         => /\ accesses = 0
            /\ rpc \in {"call", "raised"}
            /\ rpc = "raised" => raised \in KeyErrors

C15_Witness ==
    /\ request.form = "rubric"
    /\ index_files(bucket) # {}
    /\ chunks_files(bucket) = {}
    /\ rpc = "raised"
    /\ raised = "ValueError: No chunks files found in S3 directory"
    /\ accesses = 1

\* C17: packing skips every label out of range (below 0, such as -1, or at
\* least the number of passages): each returned passage is the one at an
\* in-range label the search returned.
C17_OutOfRangeLabelsSkipped ==
    rpc = "returned" =>
      /\ \A i \in 1..Len(relevant_chunks) :
           /\ relevant_chunks[i].label \in 0..(corpus.passages - 1)
           /\ relevant_chunks[i].position = relevant_chunks[i].label
      /\ \A j \in 1..Len(indices) :
           (indices[j] < 0 \/ indices[j] >= corpus.passages) =>
             \A i \in 1..Len(relevant_chunks) : relevant_chunks[i].rank # j

\* ---------------------------------------------------------- idempotence
\* C16: grading the same job twice with deterministic collaborators returns
\* identical lists of EssayResults, whatever the scheduling of the workers
\* in the two runs.
C16_RerunReturnsIdenticalList ==
    (previous.ran /\ Returned) => grading_results = previous.results

\* C16, amended: the two runs return the same EssayResults as a multiset;
\* the lists are permutations of one another.
C16_RerunReturnsSameResults ==
    (previous.ran /\ Returned) =>
      \E p \in Permutations(1..n) :
        \A i \in 1..n : grading_results[i] = previous.results[p[i]]

C16_Witness ==
    /\ previous.ran
    /\ Returned
    /\ n = MaxRerunEssays
    /\ grading_results # previous.results

\* -------------------------------------------------- the degraded result
\* C18: the result of an essay whose grading raised maps every configured
\* criterion, the names a successful grading of the job produces, to score
\* 0 with "Error: <cause>"; the batch returns one result per essay, and
\* grade_bulk_essays, which subscripts every result with every configured
\* criterion, finds each of them.
C18_DegradedResultHasEveryCriterion ==
    /\ \A e \in Essays :
         (Graded(e) /\ TookExcept(e)) =>
           /\ DOMAIN local[e] = config_keys
           /\ \A c \in config_keys :
                local[e][c] = CriterionResult(0, ErrorFeedback(GradeBody(e).cause))
           /\ assembled.valid => DOMAIN local[e] = Criteria
    /\ Returned =>
         /\ Len(grading_results) = n
         /\ \A i \in 1..n : config_keys \subseteq DOMAIN grading_results[i]
    /\ mainPc = "responded" => output.status = 200

C18_Witness ==
    /\ mainPc = "responded"
    /\ output.status = 200
    /\ config_keys = Criteria
    /\ n >= 2
    /\ \E e \in Essays : GradeBody(e).raised /\ local[e] = ErrorResult("retrieval failed")
    /\ \E e \in Essays : ~GradeBody(e).raised

\* ------------------------------------------------------- the matched pair
\* C19: in every state of the bucket (while index_pdf ingests again for the
\* owner and course, and after an index_pdf that failed midway) the index
\* object and the chunks object find_most_recent_index_and_chunks resolves
\* were written by the same ingestion.
C19_ResolvedPairIsOneIngestion ==
    /\ LET r == find_most_recent_index_and_chunks(TRUE, TRUE, bucket)
       IN  r.error = "" => r.index.ingestion = r.chunks.ingestion
    /\ rpc = "load" => resolved.index.ingestion = resolved.chunks.ingestion

\* ------------------------------------------------------ the shared file
\* C20: under every interleaving of the download, read and delete steps of
\* concurrent download_json_from_s3 calls on the one local file, each call
\* ends without an exception and with the content of the object it asked
\* for, as it does alone.
C20_ConcurrentDownloadsDoNotInterfere ==
    \A c \in DOMAIN calls :
      calls[c].pc = "done" =>
        /\ calls[c].error = ""
        /\ calls[c].data = calls[c].json_key

====
